---- MODULE Spec2Model ----
(***************************************************************************)
(* A model of menyoki's recording-and-encoding pipeline:                   *)
(*   - Recorder::record and its capture worker   (src/src/record/mod.rs)   *)
(*   - Gif::new and Gif::save                    (src/src/gif/mod.rs)      *)
(*   - GifSettings::from_args                    (src/src/gif/settings.rs) *)
(*   - AnimSettings::from_parser, map_range      (src/src/anim/settings.rs)*)
(* Three specifications share the variables: SpecRec (the capture worker   *)
(* and its controller), SpecEnc (one Gif::save call) and SpecSet (settings *)
(* mapping followed by Gif::new).  Each leaves the variables of the other  *)
(* two at their initial values.                                            *)
(***************************************************************************)
EXTENDS Integers, Sequences, FiniteSets, TLC

VARIABLES
    \* ---- Recorder (record/mod.rs) ----
    pc,          \* position of the capture worker
    chan,        \* number of () messages pending in recorder.channel
    senderHeld,  \* the caller still owns RecordResult.sender
    tick,        \* the worker's local `tick`
    frames,      \* the worker's local Vec<Frame>
    calls,       \* number of get_image() invocations so far
    lastImage,   \* what the last get_image() returned
    ticks,       \* number of recorder.clock.tick() calls so far
    joinResult,  \* what RecordResult.thread.join() gave the caller
    sentAt,      \* history: the worker's progress when the first cancel was sent
    \* ---- Gif encoder (gif/mod.rs) ----
    fps,         \* Gif.fps
    settings,    \* Gif.settings (GifSettings)
    loopPolicy,  \* the Repeat value set on the encoder by Gif::new
    images,      \* the Vec<Image> handed to save
    spc,         \* position inside save
    idx,         \* index of the image the for loop is at (1-based)
    cancelKeys,  \* what input_state.check_cancel_keys() reads right now
    output,      \* the frames written to the output so far
    saveResult,  \* the value save returned
    stopAt,      \* history: frames written when a check read the cancel state as set
    \* ---- Settings mapping (gif/settings.rs, anim/settings.rs) ----
    parser,      \* ArgParser.args: NoArgs or the parsed flags
    gifSettings, \* result of GifSettings::from_args
    animSettings \* result of AnimSettings::from_parser

recVars == <<pc, chan, senderHeld, tick, frames, calls, lastImage, ticks,
             joinResult, sentAt>>
encVars == <<fps, settings, images, spc, idx, cancelKeys, output, saveResult,
             stopAt>>
setVars == <<parser, gifSettings, animSettings>>
vars == <<recVars, encVars, setVars, loopPolicy>>

\* What an action of one component leaves alone.
RecOnly == UNCHANGED <<encVars, setVars, loopPolicy>>

(***************************************************************************)
(* Bounds of the model.                                                    *)
(***************************************************************************)
MaxFrames == 3      \* the worker appends at most this many frames
MaxSends == 2       \* the controller sends at most this many cancel messages
MaxImages == 2      \* save is handed at most this many images
MaxFps == 8         \* Gif.fps ranges over 0..MaxFps
MaxQuality == 101   \* settings.quality ranges over 0..MaxQuality
MaxRepeat == 6      \* user-supplied repeat ranges over -MaxRepeat..MaxRepeat

(***************************************************************************)
(* Numeric helpers: the casts and float operations the code performs,      *)
(* computed on exact integers/rationals.                                   *)
(***************************************************************************)
U16Max == 65535

\* n / d truncated toward zero: what `as i32` / `as u16` do to a float n/d.
TruncDiv(n, d) ==
    IF n >= 0 THEN n \div d ELSE -((-n) \div d)

\* f64::round / f32::round of n / d: nearest, halves away from zero.
RoundDiv(n, d) ==
    IF n >= 0 THEN (2 * n + d) \div (2 * d) ELSE -((2 * (-n) + d) \div (2 * d))

\* `x as u16` for an integral x: saturating.
AsU16(x) ==
    IF x < 0 THEN 0 ELSE IF x > U16Max THEN U16Max ELSE x

(***************************************************************************)
(* Settings mapping (src/src/gif/settings.rs, src/src/anim/settings.rs)    *)
(***************************************************************************)
\* ArgParser.args = None.
NoArgs == [present |-> FALSE, flags |-> <<>>]

\* A flag given on the command line: its text parsed to the target type,
\* or did not.
Flag(v) == [parsed |-> TRUE, value |-> v]
Unparsable == [parsed |-> FALSE, value |-> 0]

\* ArgParser::parse(name, default): the flag's value when it is present and
\* parses, the default otherwise.
Parse(p, name, default) ==
    IF name \in DOMAIN p.flags /\ p.flags[name].parsed
        THEN p.flags[name].value
        ELSE default

\* impl Default for GifSettings / for AnimSettings.
GifDefault == [made |-> TRUE, repeat |-> -1, quality |-> 75]
AnimDefault == [made |-> TRUE, fps |-> 20, repeat |-> -1, quality |-> 75]

\* GifSettings::from_args
MutGifFromArgsNoOffset(p) ==
    IF p.present
        THEN [made |-> TRUE,
              repeat |-> Parse(p, "repeat", GifDefault.repeat),
              quality |-> Parse(p, "quality", GifDefault.quality)]
        ELSE GifDefault

GifFromArgs(p) ==
    IF p.present
        THEN [made |-> TRUE,
              repeat |-> Parse(p, "repeat", GifDefault.repeat) - 1,
              quality |-> Parse(p, "quality", GifDefault.quality)]
        ELSE GifDefault

\* AnimSettings::from_parser
AnimFromParser(p) ==
    IF p.present
        THEN [made |-> TRUE,
              fps |-> IF Parse(p, "fps", AnimDefault.fps) > 0
                         THEN Parse(p, "fps", AnimDefault.fps)
                         ELSE AnimDefault.fps,
              repeat |-> Parse(p, "repeat", AnimDefault.repeat) - 1,
              quality |-> Parse(p, "quality", AnimDefault.quality)]
        ELSE AnimDefault

(***************************************************************************)
(* Recorder (src/src/record/mod.rs)                                        *)
(***************************************************************************)
ClockFps == 10

\* FpsClock::get_fps(TimeUnit::Millisecond): the frame period in ms.
GetFpsMs == 1000 \div ClockFps

\* FpsClock::tick() returns a time in nanoseconds; any of these.
TickReturns == {-2000000, 0, 1500000, 3000000}

\* mpsc::Receiver::try_recv on a channel with n pending messages and the
\* given number of live senders.
TryRecv(n, senders) ==
    IF n > 0 THEN "Ok" ELSE IF senders > 0 THEN "Empty" ELSE "Disconnected"

\* The leaked Recorder keeps channel.0; RecordResult.sender is a clone of it.
MutLiveSendersNoLeak == IF senderHeld THEN 1 ELSE 0

LiveSenders == 1 + (IF senderHeld THEN 1 ELSE 0)

\* The delay record/mod.rs:45 gives a frame: (tick / 10.) as u16.
FrameDelay(t) == AsU16(TruncDiv(t, 10))

\* record/mod.rs:37-42: the tick used for this iteration's frame.
NextTick(t) ==
    IF t >= 0 THEN GetFpsMs - RoundDiv(t, 1000000) ELSE GetFpsMs

InitRec ==
    /\ pc = "new"
    /\ chan = 0
    /\ senderHeld = FALSE
    /\ tick = 0
    /\ frames = <<>>
    /\ calls = 0
    /\ lastImage = "none yet"
    /\ ticks = 0
    /\ joinResult = [state |-> "pending", frames |-> <<>>]
    /\ sentAt = [sent |-> FALSE, frames |-> 0, ticks |-> 0]
    \* the encoder and the settings are not in use
    /\ fps = 0
    /\ settings = [made |-> FALSE, repeat |-> 0, quality |-> 0]
    /\ loopPolicy = [kind |-> "unset", n |-> 0]
    /\ images = <<>>
    /\ spc = "none"
    /\ idx = 1
    /\ cancelKeys = FALSE
    /\ output = <<>>
    /\ saveResult = "none"
    /\ stopAt = -1
    /\ parser = NoArgs
    /\ gifSettings = [made |-> FALSE, repeat |-> 0, quality |-> 0]
    /\ animSettings = [made |-> FALSE, fps |-> 0, repeat |-> 0, quality |-> 0]

\* Recorder::record: leaks the recorder, clones the sender, spawns the worker.
Record ==
    /\ pc = "new"
    /\ pc' = "poll"
    /\ senderHeld' = TRUE
    /\ tick' = 0
    /\ frames' = <<>>
    /\ UNCHANGED <<chan, calls, lastImage, ticks, joinResult, sentAt>>
    /\ RecOnly

\* The loop condition: while recorder.channel.1.try_recv().is_err()
MutPollInverted ==
    /\ pc = "poll"
    /\ IF TryRecv(chan, LiveSenders) = "Ok"
          THEN /\ chan' = chan - 1
               /\ pc' = "body"
          ELSE /\ chan' = chan
               /\ pc' = "returned"
    /\ UNCHANGED <<senderHeld, tick, frames, calls, lastImage, ticks,
                   joinResult, sentAt>>
    /\ RecOnly

\* (A further iteration starts only while fewer than MaxFrames frames exist.)
Poll ==
    /\ pc = "poll"
    /\ TryRecv(chan, LiveSenders) = "Ok" \/ Len(frames) < MaxFrames
    /\ IF TryRecv(chan, LiveSenders) = "Ok"
          THEN /\ chan' = chan - 1
               /\ pc' = "returned"
          ELSE /\ chan' = chan
               /\ pc' = "body"
    /\ UNCHANGED <<senderHeld, tick, frames, calls, lastImage, ticks,
                   joinResult, sentAt>>
    /\ RecOnly

\* record/mod.rs:37-45 with get_image() returning Some(image `calls + 1`)
CaptureSome ==
    /\ pc = "body"
    /\ Len(frames) < MaxFrames
    /\ tick' = NextTick(tick)
    /\ calls' = calls + 1
    /\ lastImage' = "Some"
    /\ frames' = Append(frames, [image |-> calls + 1,
                                 delay |-> FrameDelay(NextTick(tick))])
    /\ pc' = "tick"
    /\ UNCHANGED <<chan, senderHeld, ticks, joinResult, sentAt>>
    /\ RecOnly

\* record/mod.rs:37-45 with get_image() returning None: unwrap() panics and
\* the worker thread unwinds, dropping `frames`.
CaptureNone ==
    /\ pc = "body"
    /\ tick' = NextTick(tick)
    /\ calls' = calls + 1
    /\ lastImage' = "None"
    /\ pc' = "panicked"
    /\ UNCHANGED <<chan, senderHeld, frames, ticks, joinResult, sentAt>>
    /\ RecOnly

\* record/mod.rs:46: tick = recorder.clock.tick(); then back to the loop head.
MutTickSkipsPoll ==
    /\ pc = "tick"
    /\ \E t \in TickReturns : tick' = t
    /\ ticks' = ticks + 1
    /\ pc' = "body"
    /\ UNCHANGED <<chan, senderHeld, frames, calls, lastImage, joinResult,
                   sentAt>>
    /\ RecOnly

Tick ==
    /\ pc = "tick"
    /\ \E t \in TickReturns : tick' = t
    /\ ticks' = ticks + 1
    /\ pc' = "poll"
    /\ UNCHANGED <<chan, senderHeld, frames, calls, lastImage, joinResult,
                   sentAt>>
    /\ RecOnly

\* The controller sends () on RecordResult.sender.
SendCancel ==
    /\ senderHeld
    /\ chan < MaxSends
    /\ chan' = chan + 1
    /\ sentAt' = IF sentAt.sent
                    THEN sentAt
                    ELSE [sent |-> TRUE, frames |-> Len(frames), ticks |-> ticks]
    /\ UNCHANGED <<pc, senderHeld, tick, frames, calls, lastImage, ticks,
                   joinResult>>
    /\ RecOnly

\* The caller drops RecordResult.sender without (further) sending.
DropSender ==
    /\ senderHeld
    /\ senderHeld' = FALSE
    /\ UNCHANGED <<pc, chan, tick, frames, calls, lastImage, ticks,
                   joinResult, sentAt>>
    /\ RecOnly

\* RecordResult.thread.join(): Ok(frames) when the closure returned, Err
\* (the panic payload, no frames) when it panicked.
Join ==
    /\ joinResult.state = "pending"
    /\ pc \in {"returned", "panicked"}
    /\ joinResult' = IF pc = "returned"
                        THEN [state |-> "Ok", frames |-> frames]
                        ELSE [state |-> "Err", frames |-> <<>>]
    /\ UNCHANGED <<pc, chan, senderHeld, tick, frames, calls, lastImage,
                   ticks, sentAt>>
    /\ RecOnly

(***************************************************************************)
(* Gif encoder (src/src/gif/mod.rs)                                        *)
(***************************************************************************)
\* gif/mod.rs:59-62: the Repeat handed to the encoder.  Repeat::Finite holds
\* a u16: n.try_into() fails above u16::MAX and unwrap_or_default gives 0.
MutRepeatOfOnlyMinusOne(n) ==
    IF n = -1
        THEN [kind |-> "Infinite", n |-> 0]
        ELSE [kind |-> "Finite", n |-> IF n >= 0 /\ n <= U16Max THEN n ELSE 0]

MutRepeatOfPositiveOnly(n) ==
    IF n > 0
        THEN [kind |-> "Finite", n |-> IF n <= U16Max THEN n ELSE 0]
        ELSE [kind |-> "Infinite", n |-> 0]

RepeatOf(n) ==
    IF n >= 0
        THEN [kind |-> "Finite", n |-> IF n <= U16Max THEN n ELSE 0]
        ELSE [kind |-> "Infinite", n |-> 0]

\* map_range(value, from_range, to_range), as the exact rational num / den.
MapRange(value, from, to) ==
    [num |-> to[1] * (from[2] - from[1]) + (value - from[1]) * (to[2] - to[1]),
     den |-> from[2] - from[1]]

\* `x as i32` of a float x = num / den (den > 0): truncation toward zero.
AsI32(x) == TruncDiv(x.num, x.den)

\* gif/mod.rs:91-95: the speed handed to Frame::from_rgba_speed.
MutSpeedFrom29(quality) ==
    29 - AsI32(MapRange(quality, <<1, 100>>, <<0, 29>>))

Speed(quality) ==
    30 - AsI32(MapRange(quality, <<1, 100>>, <<0, 29>>))

\* gif/mod.rs:97: ((1. / fps as f32) * 1e2) as u16.  1/0 is +inf, which the
\* cast saturates.
Delay(f) ==
    IF f = 0 THEN U16Max ELSE AsU16(TruncDiv(100, f))

\* The values save can return.
SaveOk == "Ok(())"
SaveErr == "Err(io)"

\* A Gif built by Gif::new, about to be saved.
InitEnc ==
    /\ fps \in 0..MaxFps
    /\ settings \in [made : {TRUE}, repeat : {-1}, quality : 0..MaxQuality]
    /\ loopPolicy = RepeatOf(settings.repeat)
    /\ images \in {[i \in 1..n |-> i] : n \in 0..MaxImages}
    /\ spc = "new"
    /\ idx = 1
    /\ cancelKeys \in BOOLEAN
    /\ output = <<>>
    /\ saveResult = "none"
    /\ stopAt = -1
    \* the recorder and the settings mapping are not in use
    /\ pc = "new"
    /\ chan = 0
    /\ senderHeld = FALSE
    /\ tick = 0
    /\ frames = <<>>
    /\ calls = 0
    /\ lastImage = "none yet"
    /\ ticks = 0
    /\ joinResult = [state |-> "pending", frames |-> <<>>]
    /\ sentAt = [sent |-> FALSE, frames |-> 0, ticks |-> 0]
    /\ parser = NoArgs
    /\ gifSettings = [made |-> FALSE, repeat |-> 0, quality |-> 0]
    /\ animSettings = [made |-> FALSE, fps |-> 0, repeat |-> 0, quality |-> 0]

EncOnly == UNCHANGED <<recVars, setVars, loopPolicy, fps, settings, images>>

\* save is called: the for loop starts.
SaveCall ==
    /\ spc = "new"
    /\ spc' = "loop"
    /\ UNCHANGED <<idx, cancelKeys, output, saveResult, stopAt>>
    /\ EncOnly

\* gif/mod.rs:82-86 and 100: the loop head.  Out of images: Ok(()).  Cancel
\* keys read as pressed: break, and Ok(()) as well.
MutSaveCheckContinue ==
    /\ spc = "loop"
    /\ IF idx > Len(images)
          THEN /\ spc' = "done"
               /\ saveResult' = SaveOk
               /\ UNCHANGED <<stopAt, idx>>
          ELSE IF cancelKeys
                  THEN /\ spc' = "loop"
                       /\ idx' = idx + 1
                       /\ stopAt' = IF stopAt < 0 THEN idx - 1 ELSE stopAt
                       /\ UNCHANGED saveResult
                  ELSE /\ spc' = "encode"
                       /\ UNCHANGED <<saveResult, stopAt, idx>>
    /\ UNCHANGED <<cancelKeys, output>>
    /\ EncOnly

SaveCheck ==
    /\ spc = "loop"
    /\ IF idx > Len(images)
          THEN /\ spc' = "done"
               /\ saveResult' = SaveOk
               /\ UNCHANGED stopAt
          ELSE IF cancelKeys
                  THEN /\ spc' = "done"
                       /\ saveResult' = SaveOk
                       /\ stopAt' = idx - 1
                  ELSE /\ spc' = "encode"
                       /\ UNCHANGED <<saveResult, stopAt>>
    /\ UNCHANGED <<idx, cancelKeys, output>>
    /\ EncOnly

\* gif/mod.rs:87-98: the frame is built and written.
SaveWrite ==
    /\ spc = "encode"
    /\ output' = Append(output, [image |-> images[idx],
                                 speed |-> Speed(settings.quality),
                                 delay |-> Delay(fps)])
    /\ idx' = idx + 1
    /\ spc' = "loop"
    /\ UNCHANGED <<cancelKeys, saveResult, stopAt>>
    /\ EncOnly

\* gif/mod.rs:98: write_frame fails and `?` returns the error.
SaveWriteFails ==
    /\ spc = "encode"
    /\ spc' = "done"
    /\ saveResult' = SaveErr
    /\ UNCHANGED <<idx, cancelKeys, output, stopAt>>
    /\ EncOnly

\* The user presses or releases the cancel keys while save runs.
KeysChange ==
    /\ spc \in {"loop", "encode"}
    /\ cancelKeys' = ~cancelKeys
    /\ UNCHANGED <<idx, spc, output, saveResult, stopAt>>
    /\ EncOnly

NextEnc ==
    \/ SaveCall
    \/ SaveCheck
    \/ SaveWrite
    \/ SaveWriteFails
    \/ KeysChange

SpecEnc == InitEnc /\ [][NextEnc]_vars

\* The command lines the settings are built from: no subcommand at all, or
\* any subset of the flags, each with a value that parses or does not.
FlagNames == {"repeat", "quality", "fps"}
RepeatInputs == (-MaxRepeat..MaxRepeat) \cup {U16Max, U16Max + 1, U16Max + 2}
FlagValues(name) ==
    CASE name = "repeat" -> {Flag(r) : r \in RepeatInputs} \cup {Unparsable}
      [] name = "quality" -> {Flag(10), Flag(100)}
      [] name = "fps" -> {Flag(0), Flag(15)}
FlagChoices ==
    UNION {{f \in [D -> UNION {FlagValues(n) : n \in FlagNames}] :
               \A n \in D : f[n] \in FlagValues(n)} : D \in SUBSET FlagNames}
ParserInputs ==
    {NoArgs} \cup {[present |-> TRUE, flags |-> f] : f \in FlagChoices}

InitSet ==
    /\ parser \in ParserInputs
    /\ gifSettings = [made |-> FALSE, repeat |-> 0, quality |-> 0]
    /\ animSettings = [made |-> FALSE, fps |-> 0, repeat |-> 0, quality |-> 0]
    \* no Gif yet, and the recorder is not in use
    /\ fps = 0
    /\ settings = [made |-> FALSE, repeat |-> 0, quality |-> 0]
    /\ loopPolicy = [kind |-> "unset", n |-> 0]
    /\ images = <<>>
    /\ spc = "none"
    /\ idx = 1
    /\ cancelKeys = FALSE
    /\ output = <<>>
    /\ saveResult = "none"
    /\ stopAt = -1
    /\ pc = "new"
    /\ chan = 0
    /\ senderHeld = FALSE
    /\ tick = 0
    /\ frames = <<>>
    /\ calls = 0
    /\ lastImage = "none yet"
    /\ ticks = 0
    /\ joinResult = [state |-> "pending", frames |-> <<>>]
    /\ sentAt = [sent |-> FALSE, frames |-> 0, ticks |-> 0]

SetOnly ==
    UNCHANGED <<recVars, images, idx, cancelKeys, output, saveResult, stopAt>>

\* GifSettings::from_args(parser)
GifSettingsFromArgs ==
    /\ ~gifSettings.made
    /\ gifSettings' = GifFromArgs(parser)
    /\ UNCHANGED <<parser, animSettings, fps, settings, loopPolicy, spc>>
    /\ SetOnly

\* AnimSettings::from_parser(parser)
AnimSettingsFromParser ==
    /\ ~animSettings.made
    /\ animSettings' = AnimFromParser(parser)
    /\ UNCHANGED <<parser, gifSettings, fps, settings, loopPolicy, spc>>
    /\ SetOnly

\* Gif::new(geometry, output, fps, settings) returning Ok.
GifNew ==
    /\ gifSettings.made
    /\ spc = "none"
    /\ fps' \in {0, ClockFps}
    /\ settings' = gifSettings
    /\ loopPolicy' = RepeatOf(gifSettings.repeat)
    /\ spc' = "new"
    /\ UNCHANGED <<parser, gifSettings, animSettings>>
    /\ SetOnly

\* Gif::new returning Err: GifEncoder::new or encoder.set failed (`?`).
GifNewFails ==
    /\ gifSettings.made
    /\ spc = "none"
    /\ spc' = "new failed"
    /\ UNCHANGED <<parser, gifSettings, animSettings, fps, settings,
                   loopPolicy>>
    /\ SetOnly

NextSet ==
    \/ GifSettingsFromArgs
    \/ AnimSettingsFromParser
    \/ GifNew
    \/ GifNewFails

SpecSet == InitSet /\ [][NextSet]_vars

(***************************************************************************)
(* Properties of the settings mapping and Gif::new (checked under SpecSet) *)
(***************************************************************************)
\* The user gave --repeat with a value that parses.
RepeatGiven ==
    /\ parser.present
    /\ "repeat" \in DOMAIN parser.flags
    /\ parser.flags["repeat"].parsed

\* `stored` is the user's repeat minus one, or -1 when there are no arguments
\* at all.  (Says nothing when the subcommand is present and --repeat is not.)
StoresRepeatMinusOne(stored) ==
    /\ RepeatGiven => stored + 1 = parser.flags["repeat"].value
    /\ (RepeatGiven /\ parser.flags["repeat"].value = 5) => stored = 4
    /\ (RepeatGiven /\ parser.flags["repeat"].value = 0) => stored = -1
    /\ ~parser.present => stored = -1

C9_FiniteExactlyN ==
    spc = "new" =>
        IF settings.repeat >= 0
            THEN loopPolicy = [kind |-> "Finite", n |-> settings.repeat]
            ELSE loopPolicy.kind = "Infinite"

\* C9 amended: a stored repeat n in 0..65535 gives Repeat::Finite(n), a
\* stored repeat above 65535 gives Repeat::Finite(0), and every negative
\* one gives Repeat::Infinite.
C9_FiniteUpToU16 ==
    spc = "new" =>
        /\ settings.repeat < 0 => loopPolicy.kind = "Infinite"
        /\ settings.repeat >= 0 => loopPolicy.kind = "Finite"
        /\ (settings.repeat >= 0 /\ settings.repeat <= U16Max) =>
               loopPolicy.n = settings.repeat
        /\ settings.repeat > U16Max => loopPolicy.n = 0

\* C9 witness: Gif::new ran on a stored repeat of 65536 (--repeat 65537),
\* one above what Repeat::Finite can hold.
C9_Witness ==
    /\ spc = "new" /\ settings.repeat = U16Max + 1
    /\ loopPolicy = [kind |-> "Finite", n |-> 0]

\* The subcommand is present and --repeat gives no value: the flag is
\* absent, or its text does not parse.
RepeatMissing == parser.present /\ ~RepeatGiven

\* C11: with the subcommand present and no repeat flag, the default -1 is
\* decremented again and -2 is stored; with no arguments at all -1 is
\* stored; both are negative, so the loop policy Gif::new derives from a
\* stored repeat is Repeat::Infinite whenever the repeat flag is absent, on
\* the GifSettings path and on the AnimSettings path.
C11_AbsentRepeatIsInfinite ==
    /\ (gifSettings.made /\ RepeatMissing) => gifSettings.repeat = -2
    /\ (animSettings.made /\ RepeatMissing) => animSettings.repeat = -2
    /\ (gifSettings.made /\ ~parser.present) => gifSettings.repeat = -1
    /\ (animSettings.made /\ ~parser.present) => animSettings.repeat = -1
    /\ (gifSettings.made /\ ~RepeatGiven) =>
           RepeatOf(gifSettings.repeat).kind = "Infinite"
    /\ (animSettings.made /\ ~RepeatGiven) =>
           RepeatOf(animSettings.repeat).kind = "Infinite"
    /\ (spc = "new" /\ ~RepeatGiven) =>
           (settings.repeat < 0 /\ loopPolicy.kind = "Infinite")

\* C11 witness: the subcommand was present without --repeat, both
\* constructors stored -2 and Gif::new set the infinite policy.
C11_Witness ==
    /\ parser.present /\ "repeat" \notin DOMAIN parser.flags
    /\ gifSettings.made /\ gifSettings.repeat = -2
    /\ animSettings.made /\ animSettings.repeat = -2
    /\ spc = "new" /\ settings.repeat = -2
    /\ loopPolicy.kind = "Infinite"

(***************************************************************************)
(* Properties of Gif::save (checked under SpecEnc)                         *)
(***************************************************************************)
\* The images of the frames written so far, in the order written.
Written == [i \in 1..Len(output) |-> output[i].image]

\* The first k elements of a sequence.
Prefix(q, k) == [i \in 1..k |-> q[i]]

\* C3: save reads the cancel state before encoding each frame.  What has
\* been written is at every moment the first Len(output) input frames in
\* input order, and once a check has read the state as set after k frames
\* (stopAt = k) save is over with exactly the first k frames written.
C3_SaveWritesPrefixUpToCancel ==
    /\ Len(output) <= Len(images)
    /\ Written = Prefix(images, Len(output))
    /\ spc = "encode" => (idx <= Len(images) /\ Len(output) = idx - 1)
    /\ stopAt >= 0 =>
          /\ spc = "done"
          /\ stopAt < Len(images)
          /\ Written = Prefix(images, stopAt)

\* C3 witness: of two input frames one was written, then the check read the
\* cancel state as set.
C3_Witness ==
    /\ Len(images) = 2 /\ stopAt = 1 /\ spc = "done"
    /\ Written = <<images[1]>>

\* C4 as claimed: a save cancelled after k < n frames returns something that
\* is neither the failure value nor the value a run that wrote all n frames
\* returns.
C4_StoppedEarlyIsDistinguishable ==
    (spc = "done" /\ stopAt >= 0 /\ stopAt < Len(images)) =>
        (saveResult # SaveErr /\ saveResult # SaveOk)

\* C5 as claimed: save with an empty frame sequence fails with the message
\* "No frames found to save." and does not return success.
C5_EmptySaveFails ==
    (spc = "done" /\ images = <<>>) =>
        (saveResult = "Err(No frames found to save.)" /\ saveResult # SaveOk)

\* C6 as claimed: for quality in 1..100 the speed of every written frame is
\* in 0..29, 29 at quality 1 and 0 at quality 100.
C6_SpeedIn0To29 ==
    \A i \in 1..Len(output) :
        settings.quality \in 1..100 =>
            /\ output[i].speed \in 0..29
            /\ (settings.quality = 1 => output[i].speed = 29)
            /\ (settings.quality = 100 => output[i].speed = 0)

\* C6 amended: for quality in 1..100 the speed of every written frame is in
\* 1..30, 30 at quality 1 and 1 at quality 100 (the cast to i32 applies to
\* map_range's result alone, and 30, not 29, is what it is subtracted from).
C6_SpeedIn1To30 ==
    \A i \in 1..Len(output) :
        settings.quality \in 1..100 =>
            /\ output[i].speed \in 1..30
            /\ (settings.quality = 1 => output[i].speed = 30)
            /\ (settings.quality = 100 => output[i].speed = 1)

\* C6 witnesses: frames written at quality 100.
C6_Witness ==
    /\ settings.quality = 100 /\ Len(output) = 2
    /\ output[1].speed = 1

\* C8 as claimed: for fps > 0 every written frame's delay is 100 / fps
\* rounded to the nearest integer, the same for all frames of the call.
C8_DelayRounded ==
    \A i \in 1..Len(output) :
        fps > 0 =>
            /\ 2 * fps * output[i].delay <= 200 + fps
            /\ 200 - fps < 2 * fps * output[i].delay
            /\ output[i].delay = output[1].delay

NextRec ==
    \/ Record
    \/ Poll
    \/ CaptureSome
    \/ CaptureNone
    \/ Tick
    \/ SendCancel
    \/ DropSender
    \/ Join

SpecRec == InitRec /\ [][NextRec]_vars

\* The worker is a running thread: the step it is at is eventually taken,
\* provided get_image() and clock.tick() return.  Nothing obliges the caller
\* to call record, send, drop or join.
SpecRecFair ==
    /\ InitRec
    /\ [][NextRec]_vars
    /\ WF_vars(Poll)
    /\ WF_vars(CaptureSome \/ CaptureNone)
    /\ WF_vars(Tick)

(***************************************************************************)
(* Properties of the capture worker (checked under SpecRec)                *)
(***************************************************************************)
\* The images of a frame sequence, and the sequence 1..n of provider results.
ImagesOf(fs) == [i \in 1..Len(fs) |-> fs[i].image]
FirstN(n) == [i \in 1..n |-> i]

\* C1: the worker polls the channel at the head of every iteration; a poll
\* that finds a cancel message pending ends the worker without another
\* get_image() call and without touching the frames, a poll that finds none
\* starts an iteration; once returned, the worker never calls the provider
\* or changes the frames again, what it returned (and what join hands over)
\* is the frames appended so far, in capture order, and a cancel found at
\* the first poll gives the empty sequence.
C1_CancelAtPollStopsWorker ==
    /\ [][(pc = "poll" /\ pc' # "poll") =>
            /\ frames' = frames /\ calls' = calls
            /\ IF chan > 0 THEN pc' = "returned" ELSE pc' = "body"]_vars
    /\ [][(pc' = "body" /\ pc # "body") => (pc = "poll" /\ chan = 0)]_vars
    /\ [][pc = "returned" =>
            (pc' = "returned" /\ frames' = frames /\ calls' = calls)]_vars
    /\ [](pc = "returned" =>
            /\ ImagesOf(frames) = FirstN(calls)
            /\ ticks = calls
            /\ (ticks = 0 => frames = <<>>))
    /\ [](joinResult.state = "Ok" => joinResult.frames = frames)

\* C1 witnesses: a cancel found at the very first poll (empty result), and a
\* cancel found after two frames.
C1_Witness ==
    /\ pc = "returned" /\ joinResult.state = "Ok"
    /\ Len(joinResult.frames) = 2 /\ calls = 2

\* C2 as claimed: when the provider reports no image, the worker does not
\* crash, and the caller gets a CaptureError together with the frames that
\* were appended before the failing iteration.
C2_ProviderFailureSurfaced ==
    lastImage = "None" =>
        /\ pc # "panicked"
        /\ joinResult.state # "pending" =>
              (joinResult.state = "CaptureError" /\ joinResult.frames = frames)

\* C10: cancellation is seen only at the loop head.  From the moment the
\* first cancel message is sent the worker appends at most one more frame
\* and ticks at most once more, and the first poll after that moment ends
\* the worker: no iteration starts once a cancel has been sent.
C10_CancelLatencyOneIteration ==
    /\ [](sentAt.sent =>
            /\ Len(frames) <= sentAt.frames + 1
            /\ ticks <= sentAt.ticks + 1
            /\ calls <= sentAt.frames + 1)
    /\ [][(sentAt.sent /\ pc = "poll" /\ pc' # "poll") => pc' = "returned"]_vars
    /\ [][(sentAt.sent /\ pc' = "body") => pc = "body"]_vars

\* C10 witness: the cancel arrived in the middle of an iteration, which was
\* completed (one more frame, one more tick) before the worker returned.
C10_Witness ==
    /\ sentAt.sent /\ pc = "returned"
    /\ Len(frames) = sentAt.frames + 1
    /\ ticks = sentAt.ticks + 1
    /\ sentAt.frames >= 1

\* C12: the worker returns only by receiving a cancel message.  The leaked
\* Recorder's own sender keeps the channel connected, so try_recv never
\* reports a disconnect, and a poll without a message starts another
\* iteration whether or not the caller still holds its sender; each
\* iteration appends one frame.  A worker that is never sent a cancel never
\* returns and goes on appending (here: up to MaxFrames) unless the provider
\* fails; once a cancel has been sent, and the provider and the clock
\* return, the worker eventually returns.
C12_OnlyCancelEndsWorker ==
    /\ [](pc = "returned" => sentAt.sent)
    /\ [][(pc' = "returned" /\ pc # "returned") =>
            (pc = "poll" /\ chan > 0 /\ chan' = chan - 1)]_vars
    /\ [](TryRecv(chan, LiveSenders) # "Disconnected")
    /\ [][(pc = "poll" /\ chan = 0 /\ pc' # "poll") => pc' = "body"]_vars
    /\ [](pc \in {"poll", "body"} =>
            (Len(frames) = ticks /\ Len(frames) <= MaxFrames))
    /\ [](pc = "tick" => Len(frames) = ticks + 1)
    /\ (pc = "poll" /\ ~senderHeld /\ ~sentAt.sent)
          ~> (Len(frames) = MaxFrames \/ lastImage = "None")
    /\ sentAt.sent ~> (pc = "returned" \/ lastImage = "None")

\* C12 witness: the caller dropped its sender without ever sending, and the
\* worker went on to append every frame the bound allows.
C12_Witness ==
    /\ ~senderHeld /\ ~sentAt.sent /\ chan = 0
    /\ pc = "poll" /\ Len(frames) = MaxFrames

====
